---------------------------- MODULE Spec2Model ----------------------------
(***************************************************************************)
(* Model of the two pipeline scripts of streaming-vs-theatrical-analytics: *)
(*   scripts/collect_theatrical_data.py  (the Theatrical Collector)        *)
(*   scripts/add_streaming_data.py       (the Streaming Enricher)          *)
(* One behaviour is one run of one script.  Every requests.get is one      *)
(* step whose outcome (error, or a JSON body) is chosen by the service.    *)
(* Columns the scripts only copy (title, runtime, genres, ...) are left    *)
(* out of the rows; budget, revenue, movie_id and every derived column     *)
(* are kept.                                                               *)
(***************************************************************************)
EXTENDS Integers, Sequences, FiniteSets, TLC

VARIABLES
    script,            \* which script runs: "collector" or "enricher"
    apiKey,            \* TRUE iff TMDB_API_KEY is set in the environment
    pc,                \* position of the running script
    yearIdx,           \* main: index into years of the for loop
    page,              \* collect_year_data: loop variable page
    discover_results,  \* collect_year_data: last value of discover_movies
    pending,           \* collect_year_data: movies of the page not yet visited
    movies_data,       \* collect_year_data: rows of the current year
    all_movies,        \* main: rows of all years so far
    df,                \* Enricher: the data frame being enriched
    idx,               \* Enricher: position of df.iterrows()
    rawFile,           \* data/raw/theatrical_data_raw.csv
    combinedFile,      \* data/raw/theatrical_streaming_combined.csv
    \* ---- observation of the run (history variables, not program state)
    called,            \* some requests.get has been issued
    callAfterWrite,    \* some requests.get was issued after a to_csv
    unslept,           \* a request was issued and no sleep has followed it yet
    backToBack,        \* some request was issued while unslept
    writes,            \* number of to_csv calls so far
    requested,         \* discovery pages requested for the current year
    detailCalls,       \* movie id -> number of detail calls, current year
    detailFailed,      \* movie ids whose detail call raised, current year
    yearsSeen,         \* indices of the years a discovery call was issued for
    fetchLog           \* Enricher: the watch-provider calls issued, in order

\* State and observation of the Collector, of the Enricher, of the
\* environment, and of the request bookkeeping.
collectorVars == << yearIdx, page, discover_results, pending, movies_data,
                    all_movies, requested, detailCalls, detailFailed,
                    yearsSeen >>
enricherVars == << df, idx, fetchLog >>
envVars == << script, apiKey >>
callVars == << called, callAfterWrite, unslept, backToBack >>

vars == << envVars, pc, collectorVars, enricherVars, rawFile, combinedFile,
           callVars, writes >>

(***************************************************************************)
(* Python values                                                           *)
(***************************************************************************)
\* Python's None, and a JSON object / value wrapped so that it can be told
\* from None.
None == [isNone |-> TRUE]
Some(v) == [isNone |-> FALSE, value |-> v]

\* dict.get(key, default)
Get(d, key, default) == IF key \in DOMAIN d THEN d[key] ELSE default

\* The empty dict {} and the empty list [].
EmptyDict == <<>>

\* Truth value of an optional dict: None and {} are falsy.
Truthy(x) == ~x.isNone /\ DOMAIN x.value # {}

(***************************************************************************)
(* Configuration of main() in collect_theatrical_data.py                   *)
(***************************************************************************)
\* years = [2019, ..., 2024], cut to its first two entries.
years == << 2019, 2020 >>

\* max_pages_per_year (5 in the script), scaled down.
max_pages_per_year == 2

(***************************************************************************)
(* The service                                                             *)
(***************************************************************************)
\* Identifiers listed by the discovery endpoint on page p of the y-th year:
\* every (year, page, position) is its own identifier, and a full page
\* lists two movies (twenty at the service).
PageIds(y, p) ==
    LET base == ((y - 1) * max_pages_per_year + (p - 1)) * Len(<< 1, 2 >>)
    IN  << base + 1, base + 2 >>

\* Values total_pages can take in a discovery response.
TotalPagesValues == 0..(max_pages_per_year + 1)

\* JSON bodies of a successful discovery call for page p of year y: the empty
\* object, an object without 'results', and result pages (empty or full)
\* with or without 'total_pages'.
DiscoverBodies(y, p) ==
    { EmptyDict, [total_pages |-> max_pages_per_year + 1] }
      \cup { [results |-> r] : r \in { <<>>, PageIds(y, p) } }
      \cup { [results |-> r, total_pages |-> t] :
                r \in { <<>>, PageIds(y, p) }, t \in TotalPagesValues }

\* JSON body of /movie/{id}: what the database holds for the movie.  The
\* six kinds cover a complete record, a missing budget, a missing revenue,
\* explicit zeros and the empty object.
Catalogue(id) ==
    CASE id % 6 = 1 -> [title |-> "t", budget |-> 2000000, revenue |-> 5000000]
      [] id % 6 = 2 -> [title |-> "t", revenue |-> 5000000]
      [] id % 6 = 3 -> [title |-> "t", budget |-> 2000000, revenue |-> 0]
      [] id % 6 = 4 -> [title |-> "t", budget |-> 4000000, revenue |-> 10000000]
      [] id % 6 = 5 -> [title |-> "t", budget |-> 2000000]
      [] OTHER      -> EmptyDict

\* Outcome of one requests.get + raise_for_status: an error
\* (requests.exceptions.RequestException) or a JSON body.  Without the
\* credential the service answers every call with 401, i.e. an error.
HttpError == [ok |-> FALSE]
HttpOk(body) == [ok |-> TRUE, json |-> body]
Outcomes(bodies) ==
    IF apiKey THEN { HttpError } \cup { HttpOk(b) : b \in bodies }
              ELSE { HttpError }


\* Body of /genre/movie/list.
GenreBody == [genres |-> <<>>]

\* All movie identifiers the discovery endpoint can list.
AllIds ==
    UNION { { PageIds(y, p)[k] : k \in DOMAIN PageIds(y, p) } :
            << y, p >> \in (1..Len(years)) \X (1..max_pages_per_year) }

(***************************************************************************)
(* TMDbCollector                                                           *)
(***************************************************************************)
\* time.sleep(REQUEST_DELAY) of discover_movies / get_movie_details: it is
\* inside the try block, after raise_for_status, so it runs only when the
\* call did not raise.
SleepsAfterCall(o) == o.ok

\* get_genres never sleeps.
SleepsAfterGenres(o) == FALSE

\* discover_movies: the JSON body, or None on RequestException.
discover_movies(o) == IF o.ok THEN Some(o.json) ELSE None

\* get_movie_details: the JSON body, or None on RequestException.
get_movie_details(o) == IF o.ok THEN Some(o.json) ELSE None

\* The movie_data dict built from a detail record.
MovieRow(id, details) ==
    [ movie_id |-> id,
      budget   |-> Get(details, "budget", 0),
      revenue  |-> Get(details, "revenue", 0) ]

\* "if not discover_results or 'results' not in discover_results: break"
NoResults(res) == ~Truthy(res) \/ "results" \notin DOMAIN res.value

\* The last-page test with a strict comparison.
LastPage_Strict(p, res) == p > Get(res.value, "total_pages", 0)

\* "if page >= discover_results.get('total_pages', 0): break"
LastPage(p, res) == p >= Get(res.value, "total_pages", 0)

\* Bookkeeping of one outbound request whose sleep runs iff slept.
Request(slept) ==
    /\ called' = TRUE
    /\ callAfterWrite' = (callAfterWrite \/ writes > 0)
    /\ backToBack' = (backToBack \/ unslept)
    /\ unslept' = ~slept

\* What the log of requested pages records of one discovery call.
PageRecord(p, o) ==
    [ page  |-> p,
      kind  |-> IF ~o.ok THEN "error"
                ELSE IF "results" \in DOMAIN o.json THEN "page" ELSE "nodata",
      total |-> IF o.ok THEN Get(o.json, "total_pages", 0) ELSE 0 ]

\* main: collector.get_genres()
GetGenres ==
    /\ script = "collector" /\ pc = "genres"
    /\ \E o \in Outcomes({ GenreBody }) : Request(SleepsAfterGenres(o))
    /\ pc' = "year_loop"
    /\ UNCHANGED << envVars, collectorVars, enricherVars, rawFile,
                    combinedFile, writes >>

\* main: "for year in years" entering collect_year_data, or leaving the loop.
YearLoop ==
    /\ script = "collector" /\ pc = "year_loop"
    /\ IF yearIdx <= Len(years)
       THEN /\ pc' = "discover"
            /\ page' = 1
            /\ movies_data' = <<>>
            /\ requested' = <<>>
            /\ detailCalls' = [ i \in AllIds |-> 0 ]
            /\ detailFailed' = {}
       ELSE /\ pc' = "process"
            /\ UNCHANGED << page, movies_data, requested, detailCalls,
                            detailFailed >>
    /\ UNCHANGED << envVars, yearIdx, discover_results, pending, all_movies,
                    yearsSeen, enricherVars, rawFile, combinedFile, callVars,
                    writes >>

\* Discover with a failure path that throws the rows of the year away.
Discover_DropsRows ==
    /\ script = "collector" /\ pc = "discover"
    /\ \E o \in Outcomes(DiscoverBodies(yearIdx, page)) :
         LET res == discover_movies(o) IN
         /\ Request(SleepsAfterCall(o))
         /\ discover_results' = res
         /\ requested' = Append(requested, PageRecord(page, o))
         /\ yearsSeen' = yearsSeen \cup { yearIdx }
         /\ movies_data' = IF o.ok THEN movies_data ELSE <<>>
         /\ IF NoResults(res)
            THEN pc' = "year_done" /\ pending' = <<>>
            ELSE pc' = "details" /\ pending' = res.value.results
    /\ UNCHANGED << envVars, yearIdx, page, all_movies, detailCalls,
                    detailFailed, enricherVars, rawFile, combinedFile,
                    writes >>

\* collect_year_data: one iteration head, discover_movies(year, page).
Discover ==
    /\ script = "collector" /\ pc = "discover"
    /\ \E o \in Outcomes(DiscoverBodies(yearIdx, page)) :
         LET res == discover_movies(o) IN
         /\ Request(SleepsAfterCall(o))
         /\ discover_results' = res
         /\ requested' = Append(requested, PageRecord(page, o))
         /\ yearsSeen' = yearsSeen \cup { yearIdx }
         /\ IF NoResults(res)
            THEN pc' = "year_done" /\ pending' = <<>>
            ELSE pc' = "details" /\ pending' = res.value.results
    /\ UNCHANGED << envVars, yearIdx, page, movies_data, all_movies,
                    detailCalls, detailFailed, enricherVars, rawFile,
                    combinedFile, writes >>

\* Detail with a failure that abandons the rest of the page.
Detail_AbortsPage ==
    /\ script = "collector" /\ pc = "details" /\ pending # <<>>
    /\ LET movie_id == Head(pending) IN
       \E o \in Outcomes({ Catalogue(movie_id) }) :
         LET details == get_movie_details(o) IN
         /\ Request(SleepsAfterCall(o))
         /\ movies_data' = IF Truthy(details)
                           THEN Append(movies_data,
                                       MovieRow(movie_id, details.value))
                           ELSE movies_data
         /\ detailCalls' = [detailCalls EXCEPT ![movie_id] = @ + 1]
         /\ detailFailed' = IF o.ok THEN detailFailed
                            ELSE detailFailed \cup { movie_id }
         /\ pending' = IF o.ok THEN Tail(pending) ELSE <<>>
    /\ UNCHANGED << envVars, pc, yearIdx, page, discover_results, all_movies,
                    requested, yearsSeen, enricherVars, rawFile, combinedFile,
                    writes >>

\* collect_year_data: one iteration of "for movie in movies".
Detail ==
    /\ script = "collector" /\ pc = "details" /\ pending # <<>>
    /\ LET movie_id == Head(pending) IN
       \E o \in Outcomes({ Catalogue(movie_id) }) :
         LET details == get_movie_details(o) IN
         /\ Request(SleepsAfterCall(o))
         /\ movies_data' = IF Truthy(details)
                           THEN Append(movies_data,
                                       MovieRow(movie_id, details.value))
                           ELSE movies_data
         /\ detailCalls' = [detailCalls EXCEPT ![movie_id] = @ + 1]
         /\ detailFailed' = IF o.ok THEN detailFailed
                            ELSE detailFailed \cup { movie_id }
    /\ pending' = Tail(pending)
    /\ UNCHANGED << envVars, pc, yearIdx, page, discover_results, all_movies,
                    requested, yearsSeen, enricherVars, rawFile, combinedFile,
                    writes >>

\* collect_year_data: end of one iteration of "for page in range(...)".
PageEnd ==
    /\ script = "collector" /\ pc = "details" /\ pending = <<>>
    /\ IF LastPage(page, discover_results) \/ page >= max_pages_per_year
       THEN pc' = "year_done" /\ page' = page
       ELSE pc' = "discover" /\ page' = page + 1
    /\ UNCHANGED << envVars, yearIdx, discover_results, pending, movies_data,
                    all_movies, requested, detailCalls, detailFailed,
                    yearsSeen, enricherVars, rawFile, combinedFile, callVars,
                    writes >>

\* main: all_movies.extend(year_movies)
YearReturn ==
    /\ script = "collector" /\ pc = "year_done"
    /\ all_movies' = all_movies \o movies_data
    /\ yearIdx' = yearIdx + 1
    /\ pc' = "year_loop"
    /\ UNCHANGED << envVars, page, discover_results, pending, movies_data,
                    requested, detailCalls, detailFailed, yearsSeen,
                    enricherVars, rawFile, combinedFile, callVars, writes >>

\* The filter with its revenue condition left out.
Retained_BudgetOnly(row) == row.budget > 0

\* df[(df['budget'] > 0) & (df['revenue'] > 0)]
Retained(row) == row.budget > 0 /\ row.revenue > 0

RECURSIVE Filter(_)
Filter(rows) ==
    IF rows = <<>> THEN <<>>
    ELSE IF Retained(Head(rows)) THEN << Head(rows) >> \o Filter(Tail(rows))
         ELSE Filter(Tail(rows))

\* roi and profit columns of one retained row.  The script computes roi in
\* floating point; the amounts of Catalogue make the quotient exact.
\* roi with the revenue as divisor.
Roi_OverRevenue(row) ==
    ((row.revenue - row.budget) * 100) \div row.revenue

Roi(row) == ((row.revenue - row.budget) * 100) \div row.budget
Profit(row) == row.revenue - row.budget

WithMetrics(rows) ==
    [ i \in 1..Len(rows) |->
        [ movie_id |-> rows[i].movie_id,
          budget   |-> rows[i].budget,
          revenue  |-> rows[i].revenue,
          roi      |-> Roi(rows[i]),
          profit   |-> Profit(rows[i]) ] ]

\* pd.DataFrame([]) has no columns: df['budget'] raises KeyError.
FrameHasColumns(rows) == rows # <<>>

\* main: from pd.DataFrame(all_movies) to df_filtered.to_csv(output_file).
Process ==
    /\ script = "collector" /\ pc = "process"
    /\ IF FrameHasColumns(all_movies)
       THEN /\ rawFile' = Some(WithMetrics(Filter(all_movies)))
            /\ writes' = writes + 1
            /\ pc' = "done"
       ELSE /\ pc' = "crashed"
            /\ UNCHANGED << rawFile, writes >>
    /\ UNCHANGED << envVars, collectorVars, enricherVars, combinedFile,
                    callVars >>

(***************************************************************************)
(* The watch-provider service                                              *)
(***************************************************************************)
\* Provider names, as sequences of characters.
Netflix == << "N", "e", "t", "f", "l", "i", "x" >>
NetflixLower == << "n", "e", "t", "f", "l", "i", "x" >>
Hulu == << "H", "u", "l", "u" >>
HBOMax == << "H", "B", "O", " ", "M", "a", "x" >>
Cinemax == << "C", "i", "n", "e", "m", "a", "x" >>
PrimeVideo == << "P", "r", "i", "m", "e", " ", "V", "i", "d", "e", "o" >>
DisneyPlus == << "D", "i", "s", "n", "e", "y", " ", "P", "l", "u", "s" >>
Peacock == << "P", "e", "a", "c", "o", "c", "k" >>
Max == << "M", "a", "x" >>
AmazonVideo == << "A", "m", "a", "z", "o", "n", " ", "V", "i", "d", "e", "o" >>

\* 'flatrate' lists a payload can carry.
FlatrateLists ==
    { <<>>, << Netflix >>, << NetflixLower >>, << Peacock, Hulu >>,
      << HBOMax >>, << Cinemax, PrimeVideo >>, << DisneyPlus >>,
      << Max >>, << AmazonVideo, Peacock >> }

\* The US entry of a watch-provider response: any subset of the keys
\* flatrate / rent / buy; rent and buy list brand names too.
ProviderPayloads ==
    { [ k \in K |-> CASE k = "flatrate" -> fl
                      [] k = "rent"     -> << Netflix, PrimeVideo >>
                      [] k = "buy"      -> << Hulu, DisneyPlus, HBOMax >> ] :
        K \in SUBSET { "flatrate", "rent", "buy" }, fl \in FlatrateLists }

\* JSON bodies of /movie/{id}/watch/providers: no 'results', no US entry, or
\* a US entry.
ProviderBodies ==
    { EmptyDict, [results |-> EmptyDict] }
      \cup { [results |-> [US |-> p]] : p \in ProviderPayloads }

(***************************************************************************)
(* StreamingEnricher                                                       *)
(***************************************************************************)
\* get_watch_providers with an error path that reports a rental offer.
get_watch_providers_ErrorAsRent(o) ==
    IF o.ok THEN Get(Get(o.json, "results", EmptyDict), "US", EmptyDict)
            ELSE [rent |-> <<>>]

\* get_watch_providers: data.get('results', {}).get('US', {}), or {} on
\* RequestException.
get_watch_providers(o) ==
    IF o.ok THEN Get(Get(o.json, "results", EmptyDict), "US", EmptyDict)
            ELSE EmptyDict

\* Python's "sub in name" on strings.
Contains(sub, name) ==
    \E i \in 0..(Len(name) - Len(sub)) : SubSeq(name, i + 1, i + Len(sub)) = sub

\* any(sub in p for p in platforms)
AnyContains(sub, platforms) ==
    \E i \in DOMAIN platforms : Contains(sub, platforms[i])

\* parse_providers whose on_hbo looks for 'HBO' only.
parse_providers_HboOnly(providers_data) ==
    LET has == "flatrate" \in DOMAIN providers_data
        platforms == IF has THEN providers_data["flatrate"] ELSE <<>>
    IN  [ available_on_streaming |-> has,
          streaming_platforms    |-> platforms,
          available_to_rent      |-> "rent" \in DOMAIN providers_data,
          available_to_buy       |-> "buy" \in DOMAIN providers_data,
          on_netflix |-> has /\ AnyContains(Netflix, platforms),
          on_prime   |-> has /\ (\/ AnyContains(<< "P", "r", "i", "m", "e" >>,
                                                platforms)
                                 \/ AnyContains(<< "A", "m", "a", "z", "o", "n" >>,
                                                platforms)),
          on_disney  |-> has /\ AnyContains(<< "D", "i", "s", "n", "e", "y" >>,
                                            platforms),
          on_hulu    |-> has /\ AnyContains(Hulu, platforms),
          on_hbo     |-> has /\ AnyContains(<< "H", "B", "O" >>, platforms),
          total_platforms |-> Len(platforms) ]

parse_providers(providers_data) ==
    LET has == "flatrate" \in DOMAIN providers_data
        platforms == IF has THEN providers_data["flatrate"] ELSE <<>>
    IN  [ available_on_streaming |-> has,
          streaming_platforms    |-> platforms,
          available_to_rent      |-> "rent" \in DOMAIN providers_data,
          available_to_buy       |-> "buy" \in DOMAIN providers_data,
          on_netflix |-> has /\ AnyContains(Netflix, platforms),
          on_prime   |-> has /\ (\/ AnyContains(<< "P", "r", "i", "m", "e" >>,
                                                platforms)
                                 \/ AnyContains(<< "A", "m", "a", "z", "o", "n" >>,
                                                platforms)),
          on_disney  |-> has /\ AnyContains(<< "D", "i", "s", "n", "e", "y" >>,
                                            platforms),
          on_hulu    |-> has /\ AnyContains(Hulu, platforms),
          on_hbo     |-> has /\ (\/ AnyContains(<< "H", "B", "O" >>, platforms)
                                 \/ AnyContains(<< "M", "a", "x" >>, platforms)),
          total_platforms |-> Len(platforms) ]

\* The four labels ("->" stands for the arrow of the script's strings).
TheatricalToStreaming == "Theatrical -> Streaming"
TheatricalOnly == "Theatrical Only"
StreamingFirst == "Streaming-First"
LimitedTheatrical == "Limited Theatrical"

\* The classification with the low-revenue threshold taken inclusively.
categorize_LowInclusive(revenue, budget, on_streaming) ==
    IF revenue > 50000000
    THEN IF on_streaming THEN TheatricalToStreaming ELSE TheatricalOnly
    ELSE IF revenue <= 10000000 /\ budget > 0
    THEN IF on_streaming THEN StreamingFirst ELSE LimitedTheatrical
    ELSE IF on_streaming THEN TheatricalToStreaming ELSE TheatricalOnly

categorize_release_strategy(revenue, budget, on_streaming) ==
    IF revenue > 50000000
    THEN IF on_streaming THEN TheatricalToStreaming ELSE TheatricalOnly
    ELSE IF revenue < 10000000 /\ budget > 0
    THEN IF on_streaming THEN StreamingFirst ELSE LimitedTheatrical
    ELSE IF on_streaming THEN TheatricalToStreaming ELSE TheatricalOnly

\* Streaming availability read off the platform count.
OnStreaming_ByCount(row) ==
    IF row.streaming.isNone THEN FALSE
    ELSE row.streaming.value.total_platforms > 0

\* row.get('available_on_streaming', False): None (not yet enriched) is falsy.
OnStreaming(row) ==
    IF row.streaming.isNone THEN FALSE
    ELSE row.streaming.value.available_on_streaming

\* df.apply(self.categorize_release_strategy, axis=1)
ApplyCategorize(frame) ==
    [ i \in 1..Len(frame) |->
        [ frame[i] EXCEPT !.release_strategy =
            Some(categorize_release_strategy(frame[i].revenue, frame[i].budget,
                                             OnStreaming(frame[i]))) ] ]

\* pd.read_csv followed by "df[col] = None" for the ten streaming columns;
\* release_strategy does not exist yet.
LoadFrame(table) ==
    [ i \in 1..Len(table) |->
        [ movie_id |-> table[i].movie_id,
          budget   |-> table[i].budget,
          revenue  |-> table[i].revenue,
          roi      |-> table[i].roi,
          profit   |-> table[i].profit,
          streaming |-> None,
          release_strategy |-> None ] ]

\* "if not theatrical_file.exists()"
InputMissing(file) == file.isNone

\* EnricherStart that takes a missing input file for an empty table.
EnricherStart_EmptyOnMissing ==
    /\ script = "enricher" /\ pc = "e_start"
    /\ pc' = "e_loop"
    /\ df' = IF InputMissing(rawFile) THEN <<>> ELSE LoadFrame(rawFile.value)
    /\ idx' = 1
    /\ UNCHANGED << envVars, collectorVars, fetchLog, rawFile, combinedFile,
                    callVars, writes >>

\* main of add_streaming_data.py up to the head of the loop of
\* enrich_dataset.
EnricherStart ==
    /\ script = "enricher" /\ pc = "e_start"
    /\ IF InputMissing(rawFile)
       THEN pc' = "aborted" /\ df' = df
       ELSE pc' = "e_loop" /\ df' = LoadFrame(rawFile.value)
    /\ idx' = 1
    /\ UNCHANGED << envVars, collectorVars, fetchLog, rawFile, combinedFile,
                    callVars, writes >>

\* EnrichRow that saves the table after every row.
EnrichRow_Checkpoint ==
    /\ script = "enricher" /\ pc = "e_loop" /\ idx <= Len(df)
    /\ \E o \in Outcomes(ProviderBodies) :
         LET providers == get_watch_providers(o)
             parsed == parse_providers(providers)
         IN  /\ Request(SleepsAfterCall(o))
             /\ df' = [df EXCEPT ![idx].streaming = Some(parsed)]
             /\ fetchLog' = Append(fetchLog, [row |-> idx, ok |-> o.ok,
                                          providers |-> providers])
    /\ idx' = idx + 1
    /\ combinedFile' = Some(df')
    /\ writes' = writes + 1
    /\ UNCHANGED << envVars, pc, collectorVars, rawFile >>

\* enrich_dataset: one iteration of "for idx, row in df.iterrows()".
EnrichRow ==
    /\ script = "enricher" /\ pc = "e_loop" /\ idx <= Len(df)
    /\ \E o \in Outcomes(ProviderBodies) :
         LET providers == get_watch_providers(o)
             parsed == parse_providers(providers)
         IN  /\ Request(SleepsAfterCall(o))
             /\ df' = [df EXCEPT ![idx].streaming = Some(parsed)]
             /\ fetchLog' = Append(fetchLog, [row |-> idx, ok |-> o.ok,
                                          providers |-> providers])
    /\ idx' = idx + 1
    /\ UNCHANGED << envVars, pc, collectorVars, rawFile, combinedFile, writes >>

\* enrich_dataset: after the loop, df['release_strategy'] = df.apply(...).
Categorize ==
    /\ script = "enricher" /\ pc = "e_loop" /\ idx > Len(df)
    /\ df' = ApplyCategorize(df)
    /\ pc' = "e_save"
    /\ UNCHANGED << envVars, collectorVars, idx, fetchLog, rawFile,
                    combinedFile, callVars, writes >>

\* main: df_enriched.to_csv(output_file)
Save ==
    /\ script = "enricher" /\ pc = "e_save"
    /\ combinedFile' = Some(df)
    /\ writes' = writes + 1
    /\ pc' = "done"
    /\ UNCHANGED << envVars, collectorVars, enricherVars, rawFile, callVars >>

(***************************************************************************)
(* Runs                                                                    *)
(***************************************************************************)
\* Tables the Enricher can find as theatrical_data_raw: rows as the
\* Collector writes them.
RowLow == [movie_id |-> 1, budget |-> 2000000, revenue |-> 5000000,
           roi |-> 150, profit |-> 3000000]
RowMid == [movie_id |-> 4, budget |-> 4000000, revenue |-> 10000000,
           roi |-> 150, profit |-> 6000000]
RowHigh == [movie_id |-> 7, budget |-> 20000000, revenue |-> 100000000,
            roi |-> 400, profit |-> 80000000]
InputTables ==
    { <<>>, << RowLow >>, << RowHigh, RowLow >>, << RowLow, RowMid >> }

\* A table left in theatrical_streaming_combined by an earlier run.
StaleTable == << [ movie_id |-> 0 ] >>

InitCollector ==
    /\ script = "collector"
    /\ pc = "genres"
    /\ rawFile = None
    /\ combinedFile = None
    /\ df = <<>>

InitEnricher ==
    /\ script = "enricher"
    /\ pc = "e_start"
    /\ rawFile \in { None } \cup { Some(t) : t \in InputTables }
    /\ combinedFile \in { None, Some(StaleTable) }
    /\ df = <<>>

InitCollectorIdle ==
    /\ yearIdx = 1
    /\ page = 1
    /\ discover_results = None
    /\ pending = <<>>
    /\ movies_data = <<>>
    /\ all_movies = <<>>

InitObservation ==
    /\ called = FALSE
    /\ callAfterWrite = FALSE
    /\ unslept = FALSE
    /\ backToBack = FALSE
    /\ writes = 0
    /\ requested = <<>>
    /\ detailCalls = [ i \in AllIds |-> 0 ]
    /\ detailFailed = {}
    /\ yearsSeen = {}
    /\ fetchLog = <<>>

InitCommon ==
    /\ apiKey \in BOOLEAN
    /\ InitCollectorIdle
    /\ InitObservation
    /\ idx = 1

Init == InitCommon /\ (InitCollector \/ InitEnricher)

Next == GetGenres \/ YearLoop \/ Discover \/ Detail \/ PageEnd
          \/ YearReturn \/ Process
          \/ EnricherStart \/ EnrichRow \/ Categorize \/ Save

Spec == Init /\ [][Next]_vars


(***************************************************************************)
(* The classification on its own: the frame at the end of the loop of      *)
(* enrich_dataset holds two rows with the same revenue, budget and         *)
(* streaming availability and otherwise different columns.                 *)
(***************************************************************************)
CatRevenues == { -1, 0, 1, 5000000, 9999999, 10000000, 10000001, 30000000,
                 49999999, 50000000, 50000001, 100000000 }
CatBudgets == { -1, 0, 1, 2000000, 20000000 }

CatFrame(revenue, budget, streaming) ==
    LET row(id, payload) ==
          [ movie_id |-> id, budget |-> budget, revenue |-> revenue,
            roi |-> id, profit |-> revenue - budget,
            streaming |-> Some(parse_providers(payload)),
            release_strategy |-> None ]
    IN  IF streaming
        THEN << row(1, [flatrate |-> << Netflix >>]),
                row(2, [flatrate |-> <<>>, rent |-> << Hulu >>]) >>
        ELSE << row(1, EmptyDict), row(2, [buy |-> << Hulu >>]) >>

InitCat ==
    /\ apiKey \in BOOLEAN
    /\ InitObservation
    /\ InitCollectorIdle
    /\ idx = 3
    /\ script = "enricher"
    /\ pc = "e_loop"
    /\ combinedFile = None
    /\ \E revenue \in CatRevenues, budget \in CatBudgets, s \in BOOLEAN :
         /\ df = CatFrame(revenue, budget, s)
         /\ rawFile = Some([ i \in 1..2 |->
                              [ movie_id |-> i, budget |-> budget,
                                revenue |-> revenue, roi |-> i,
                                profit |-> revenue - budget ] ])

NextCat == Categorize \/ Save

SpecCat == InitCat /\ [][NextCat]_vars

(***************************************************************************)
(* Claims                                                                  *)
(***************************************************************************)
Written(file) == ~file.isNone

\* C1: every row of the table the Collector writes as theatrical_data_raw
\* has budget > 0 and revenue > 0, in the row and in the detail record it was
\* built from (a missing field counts as 0); every collected movie with
\* budget > 0 and revenue > 0 is in the table, and the table holds nothing
\* but collected movies, each once.
C1_FilterInvariant ==
    (script = "collector" /\ Written(rawFile)) =>
        LET table == rawFile.value
            kept == { j \in DOMAIN all_movies :
                        all_movies[j].budget > 0 /\ all_movies[j].revenue > 0 }
        IN  /\ \A i \in DOMAIN table :
                 /\ table[i].budget > 0 /\ table[i].revenue > 0
                 /\ LET rec == Catalogue(table[i].movie_id)
                    IN  /\ { "budget", "revenue" } \subseteq DOMAIN rec
                        /\ rec["budget"] = table[i].budget
                        /\ rec["revenue"] = table[i].revenue
                 /\ \E j \in kept : all_movies[j].movie_id = table[i].movie_id
            /\ \A j \in kept :
                 \E i \in DOMAIN table :
                    /\ table[i].movie_id = all_movies[j].movie_id
                    /\ table[i].budget = all_movies[j].budget
                    /\ table[i].revenue = all_movies[j].revenue
            /\ Len(table) = Cardinality(kept)

\* C1 witness: a table was written that keeps one movie and drops a movie
\* whose detail record has no budget field and one whose revenue is 0.
C1_Witness ==
    /\ script = "collector" /\ Written(rawFile)
    /\ Len(rawFile.value) >= 1
    /\ \E j, k \in DOMAIN all_movies :
         /\ "budget" \notin DOMAIN Catalogue(all_movies[j].movie_id)
         /\ all_movies[k].revenue = 0
         /\ all_movies[k].budget > 0

\* C2: categorize_release_strategy gives every (revenue, budget, streaming)
\* exactly one of the four labels, fixed by the three inputs alone:
\* revenue > 50M or the default band give Theatrical -> Streaming / Theatrical
\* Only, revenue < 10M with budget > 0 gives Streaming-First / Limited
\* Theatrical; the three scenarios of the specification come out as stated.
C2_Labelled == script = "enricher" /\ pc \in { "e_save", "done" }

C2_Classification ==
    C2_Labelled =>
      /\ \A i \in DOMAIN df :
           LET revenue == df[i].revenue
               budget == df[i].budget
               s == df[i].streaming.value.available_on_streaming
               label == df[i].release_strategy.value
           IN  /\ ~df[i].release_strategy.isNone
               /\ label \in { TheatricalOnly, TheatricalToStreaming,
                              StreamingFirst, LimitedTheatrical }
               /\ revenue > 50000000 =>
                    label = IF s THEN TheatricalToStreaming ELSE TheatricalOnly
               /\ (revenue < 10000000 /\ budget > 0) =>
                    label = IF s THEN StreamingFirst ELSE LimitedTheatrical
               /\ (\/ (10000000 <= revenue /\ revenue <= 50000000)
                   \/ (revenue < 10000000 /\ budget <= 0)) =>
                    label = IF s THEN TheatricalToStreaming ELSE TheatricalOnly
               /\ (revenue = 5000000 /\ budget = 0 /\ s) =>
                    label = TheatricalToStreaming
               /\ (revenue = 100000000 /\ budget = 20000000 /\ s) =>
                    label = TheatricalToStreaming
               /\ (revenue = 5000000 /\ budget = 2000000 /\ ~s) =>
                    label = LimitedTheatrical
      /\ \A i, j \in DOMAIN df :
           ( /\ df[i].revenue = df[j].revenue
             /\ df[i].budget = df[j].budget
             /\ df[i].streaming.value.available_on_streaming
                  = df[j].streaming.value.available_on_streaming )
           => df[i].release_strategy = df[j].release_strategy

\* C2 witness: the boundary revenue 10,000,000 with a positive budget and
\* streaming has been labelled, in two rows that differ in other columns.
C2_Witness ==
    /\ C2_Labelled
    /\ Len(df) = 2
    /\ df[1].revenue = 10000000 /\ df[1].budget = 2000000
    /\ df[1].streaming.value.available_on_streaming
    /\ df[1].streaming.value.streaming_platforms
         # df[2].streaming.value.streaming_platforms
    /\ df[1].release_strategy = Some(TheatricalToStreaming)


\* The last discovery call of the current year, once one was issued.
LastRequest == requested[Len(requested)]

\* A step that issues a discovery call which fails.
FailedDiscovery ==
    /\ Len(requested') = Len(requested) + 1
    /\ requested'[Len(requested')].kind = "error"

\* No page of the current year was requested twice.
C3_NoRetry ==
    \A i, j \in DOMAIN requested :
        i # j => requested[i].page # requested[j].page

\* Every year before the current one had its discovery call, and at the end
\* of the run all of them had.
C3_LaterYears ==
    /\ (1..(yearIdx - 1)) \subseteq yearsSeen
    /\ pc \in { "process", "done", "crashed" } => yearsSeen = 1..Len(years)

\* After a failed discovery call for a page below the maximum, the next page
\* of the same year is requested before the year ends.
C3_NextPageRequested ==
    pc = "year_done" =>
        \A i \in DOMAIN requested :
            (requested[i].kind = "error"
               /\ requested[i].page < max_pages_per_year)
            => \E j \in DOMAIN requested :
                   requested[j].page = requested[i].page + 1

\* C3 as stated: a failed discovery call for page p is not retried, keeps
\* the rows gathered so far, is followed by the request for page p+1 of the
\* same year when p is below the maximum, and every later year is processed.
C3_Original ==
    script = "collector" =>
        C3_NoRetry /\ C3_LaterYears /\ C3_NextPageRequested

\* A failed discovery call leaves the rows alone and ends the year, and the
\* end of a year hands its rows to all_movies and moves to the next year.
C3_RowsKept ==
    /\ FailedDiscovery =>
         /\ movies_data' = movies_data
         /\ all_movies' = all_movies
         /\ pc' = "year_done"
    /\ (pc = "year_done" /\ pc' # "year_done") =>
         /\ all_movies' = all_movies \o movies_data
         /\ yearIdx' = yearIdx + 1

\* C3 amended: a failed discovery call for page p is not retried and keeps
\* the rows gathered so far (of this year and of earlier years), but it ends
\* the pagination of its year: no further page of that year is requested,
\* the rows of the year reach all_movies, and every later year is processed.
C3_Amended ==
    /\ [](script = "collector" =>
            /\ C3_NoRetry
            /\ C3_LaterYears
            /\ \A i \in DOMAIN requested :
                 requested[i].kind = "error" => i = Len(requested))
    /\ [][C3_RowsKept]_vars

\* C3 witness: the discovery call for page 1 of the second year failed; the
\* year is over with no request for page 2, and the rows of the first year
\* are still there.
C3_Witness ==
    /\ script = "collector" /\ pc = "year_done" /\ yearIdx = 2
    /\ all_movies # <<>>
    /\ Len(requested) = 1
    /\ LastRequest.kind = "error"
    /\ LastRequest.page < max_pages_per_year

Range(seq) == { seq[i] : i \in DOMAIN seq }

RowsOf(id) == { i \in DOMAIN movies_data : movies_data[i].movie_id = id }

\* C4: every movie identifier a discovery page returns gets exactly one
\* detail call; a movie whose call failed has no row; every other movie of
\* the page still gets its call and, when the call returns a detail record,
\* exactly one row; and the year ends only on the grounds of the discovery
\* responses (last page reported, or the page maximum), failed detail calls
\* or not.
C4_DetailFailureIsolated ==
    script = "collector" =>
      /\ \A id \in AllIds : detailCalls[id] <= 1
      /\ pc = "details" =>
           \A id \in Range(discover_results.value.results) :
               detailCalls[id] = IF id \in Range(pending) THEN 0 ELSE 1
      /\ \A id \in detailFailed : detailCalls[id] = 1 /\ RowsOf(id) = {}
      /\ \A id \in AllIds :
           (detailCalls[id] = 1 /\ id \notin detailFailed
              /\ Catalogue(id) # EmptyDict)
           => Cardinality(RowsOf(id)) = 1
      /\ \A i \in DOMAIN movies_data :
           detailCalls[movies_data[i].movie_id] = 1
      /\ (pc = "year_done" /\ LastRequest.kind = "page") =>
           \/ LastRequest.total <= LastRequest.page
           \/ LastRequest.page = max_pages_per_year

\* C4 witness: on page 1 the detail call of the first movie failed, the
\* second movie of the page has its row, and page 2 was requested.
C4_Witness ==
    /\ script = "collector"
    /\ Len(requested) = 2
    /\ PageIds(yearIdx, 1)[1] \in detailFailed
    /\ RowsOf(PageIds(yearIdx, 1)[2]) # {}

\* The snapshot of a payload without flatrate, rent and buy.
EmptySnapshot ==
    [ available_on_streaming |-> FALSE,
      streaming_platforms    |-> <<>>,
      available_to_rent      |-> FALSE,
      available_to_buy       |-> FALSE,
      on_netflix |-> FALSE, on_prime |-> FALSE, on_disney |-> FALSE,
      on_hulu |-> FALSE, on_hbo |-> FALSE,
      total_platforms |-> 0 ]

C6_MissingKeyIsFatal == ~apiKey => (~called /\ writes = 0)

\* C7: between any two outbound calls of a run there is a sleep.
C7_SleepBetweenCalls == ~backToBack

\* Steps of collect_year_data left in the worst case before the year ends.
LoopMeasure ==
    LET width == Len(PageIds(1, 1)) + 2 IN
    CASE pc = "discover" -> (max_pages_per_year - page) * width + width - 1
      [] pc = "details"  -> (max_pages_per_year - page) * width + Len(pending)
      [] OTHER -> -1

\* Every step taken inside the loop of collect_year_data lowers LoopMeasure.
C8_LoopStep ==
    pc \in { "discover", "details" } => (LoopMeasure' < LoopMeasure)

\* C8: the pages of a year are requested as 1, 2, 3, ... without gap or
\* repetition and never beyond max_pages; a further page follows only a
\* result page whose total_pages exceeds its page number; a year ends with
\* at least page 1 requested, and after a result page it ends only when that
\* page was the last by total_pages or the page maximum; every step of the
\* loop lowers a measure bounded below, so the loop terminates.
C8_Pagination ==
    /\ [](script = "collector" =>
            /\ \A i \in DOMAIN requested : requested[i].page = i
            /\ Len(requested) <= max_pages_per_year
            /\ \A i \in DOMAIN requested :
                 i < Len(requested) =>
                    /\ requested[i].kind = "page"
                    /\ requested[i].total > requested[i].page
            /\ pc = "year_done" =>
                 /\ Len(requested) >= 1
                 /\ LastRequest.kind = "page" =>
                      \/ LastRequest.total <= LastRequest.page
                      \/ LastRequest.page = max_pages_per_year
            /\ pc \in { "discover", "details" } => LoopMeasure >= 0)
    /\ [][C8_LoopStep]_vars

\* C8 witness: a year ended after pages 1 and 2, page 1 reporting more pages.
C8_Witness ==
    /\ script = "collector" /\ pc = "year_done"
    /\ Len(requested) = 2
    /\ requested[1].total > 1
    /\ LastRequest.kind = "page"
    /\ movies_data # <<>>

\* With the input missing, a step of the Enricher changes neither file.
C9_FilesUntouched ==
    (script = "enricher" /\ ~Written(rawFile)) =>
        /\ combinedFile' = combinedFile
        /\ rawFile' = rawFile

\* C9: when theatrical_data_raw does not exist, the Enricher stops at its
\* start: no request, no write, and theatrical_streaming_combined stays as
\* it was.
C9_MissingInputAborts ==
    /\ []((script = "enricher" /\ ~Written(rawFile)) =>
            /\ ~called
            /\ fetchLog = <<>>
            /\ writes = 0
            /\ pc \in { "e_start", "aborted" })
    /\ [][C9_FilesUntouched]_vars

\* C9 witness: the Enricher aborted on a missing input while an older
\* combined table exists.
C9_Witness ==
    /\ script = "enricher" /\ pc = "aborted"
    /\ ~Written(rawFile)
    /\ combinedFile = Some(StaleTable)

\* C10: a run writes its output at most once, no request follows the write,
\* and the write happens only at the end: in the Collector after the loop
\* over the years, in the Enricher after every row has its snapshot and its
\* label; until then, and in a run that aborts, the output file is as it
\* was before the run.
C10_WrittenOnceAtEnd ==
    /\ writes <= 1
    /\ ~callAfterWrite
    /\ (writes = 1) = (pc = "done")
    /\ pc # "done" =>
         /\ script = "collector" => rawFile = None
         /\ script = "enricher" => combinedFile \in { None, Some(StaleTable) }
    /\ (script = "collector" /\ pc = "done") =>
         /\ Written(rawFile)
         /\ yearIdx = Len(years) + 1
         /\ pending = <<>>
         /\ yearsSeen = 1..Len(years)
    /\ (script = "enricher" /\ pc = "done") =>
         /\ combinedFile = Some(df)
         /\ idx = Len(df) + 1
         /\ Len(fetchLog) = Len(df)
         /\ \A i \in DOMAIN df :
              ~df[i].streaming.isNone /\ ~df[i].release_strategy.isNone

\* C10 witness: the Enricher finished a run over two rows and wrote them.
C10_Witness ==
    /\ script = "enricher" /\ pc = "done" /\ writes = 1
    /\ Len(df) = 2
    /\ fetchLog[1].ok
    /\ combinedFile = Some(df)


\* The modelled provider names, and for each brand string those that contain
\* it as written, upper and lower case told apart.
KnownNames == { Netflix, NetflixLower, Hulu, HBOMax, Cinemax, PrimeVideo,
                DisneyPlus, Peacock, Max, AmazonVideo }
NamesWithNetflix == { Netflix }
NamesWithPrimeOrAmazon == { PrimeVideo, AmazonVideo }
NamesWithDisney == { DisneyPlus }
NamesWithHulu == { Hulu }
NamesWithHboOrMax == { HBOMax, Max }

\* The names of the subscription list of a payload; none without the list.
FlatrateNames(payload) ==
    IF "flatrate" \in DOMAIN payload THEN Range(payload["flatrate"]) ELSE {}

\* C11: for the payload of every enriched row, each platform flag is true
\* iff the payload has a flatrate list and a name in it contains the brand
\* string(s) of the flag, case-sensitively; names under rent or buy set no
\* flag; available_to_rent / available_to_buy are the presence of the rent /
\* buy key, with or without a flatrate list.
C11_PlatformFlags ==
    script = "enricher" =>
      \A k \in DOMAIN fetchLog :
        LET payload == fetchLog[k].providers
            names == FlatrateNames(payload)
            snap == df[k].streaming.value
        IN  /\ names \subseteq KnownNames
            /\ snap.on_netflix = (names \cap NamesWithNetflix # {})
            /\ snap.on_prime = (names \cap NamesWithPrimeOrAmazon # {})
            /\ snap.on_disney = (names \cap NamesWithDisney # {})
            /\ snap.on_hulu = (names \cap NamesWithHulu # {})
            /\ snap.on_hbo = (names \cap NamesWithHboOrMax # {})
            /\ snap.available_to_rent = ("rent" \in DOMAIN payload)
            /\ snap.available_to_buy = ("buy" \in DOMAIN payload)

\* C11 witness: one row whose payload lists Netflix and others under rent
\* and buy only, so that no flag is set while rent and buy are available,
\* and one row whose flatrate list holds "Max" alone, which sets on_hbo and
\* nothing else.
C11_Witness ==
    /\ script = "enricher" /\ Len(fetchLog) = 2
    /\ DOMAIN fetchLog[1].providers = { "rent", "buy" }
    /\ Netflix \in Range(fetchLog[1].providers["rent"])
    /\ ~df[1].streaming.value.on_netflix
    /\ df[1].streaming.value.available_to_rent
    /\ fetchLog[2].providers = [flatrate |-> << Max >>]
    /\ df[2].streaming.value.on_hbo
    /\ ~df[2].streaming.value.available_to_rent


\* C12: every row of the written table has a budget other than 0, a roi with
\* roi * budget = (revenue - budget) * 100 and a profit of revenue - budget,
\* taken from the budget and revenue of that row, which are those of the
\* movie's detail record.
C12_DerivedMetrics ==
    (script = "collector" /\ Written(rawFile)) =>
      \A i \in DOMAIN rawFile.value :
        LET row == rawFile.value[i]
            rec == Catalogue(row.movie_id)
        IN  /\ row.budget # 0
            /\ row.budget = rec["budget"] /\ row.revenue = rec["revenue"]
            /\ row.roi * row.budget = (row.revenue - row.budget) * 100
            /\ row.profit = row.revenue - row.budget
            /\ row.profit + row.budget = row.revenue

\* C12 witness: a written table with two rows of different budget and
\* revenue, each with its own profit, after a movie with budget 0 was
\* dropped.
C12_Witness ==
    /\ script = "collector" /\ Written(rawFile)
    /\ \E i, j \in DOMAIN rawFile.value :
         /\ rawFile.value[i].budget # rawFile.value[j].budget
         /\ rawFile.value[i].profit = 3000000
         /\ rawFile.value[j].profit = 6000000
         /\ rawFile.value[i].roi = 150
    /\ \E k \in DOMAIN all_movies : all_movies[k].budget = 0


\* C13: in every enriched row total_platforms is the length of
\* streaming_platforms, and a platform flag or a positive total_platforms
\* comes only with available_on_streaming; once the labels are computed, a
\* row is labelled Theatrical -> Streaming or Streaming-First iff it is
\* available_on_streaming, whatever the payload and whether or not the call
\* failed.
C13_RowConsistency ==
    script = "enricher" =>
      /\ \A k \in DOMAIN fetchLog :
           LET snap == df[k].streaming.value IN
           /\ snap.total_platforms = Len(snap.streaming_platforms)
           /\ ( \/ snap.on_netflix \/ snap.on_prime \/ snap.on_disney
                \/ snap.on_hulu \/ snap.on_hbo
                \/ snap.total_platforms > 0 )
              => snap.available_on_streaming
      /\ pc \in { "e_save", "done" } =>
           \A i \in DOMAIN df :
             /\ ~df[i].streaming.isNone
             /\ ~df[i].release_strategy.isNone
             /\ (df[i].release_strategy.value
                   \in { TheatricalToStreaming, StreamingFirst })
                = df[i].streaming.value.available_on_streaming
             /\ (df[i].release_strategy.value
                   \in { TheatricalOnly, LimitedTheatrical })
                = ~df[i].streaming.value.available_on_streaming

\* C13 witness: a labelled frame whose first row has an empty flatrate list
\* (available, no platform) and is Streaming-First or Theatrical ->
\* Streaming, and whose second row had its call fail and is not.
C13_Witness ==
    /\ script = "enricher" /\ pc = "done" /\ Len(df) = 2
    /\ fetchLog[1].ok
    /\ df[1].streaming.value.available_on_streaming
    /\ df[1].streaming.value.total_platforms = 0
    /\ df[1].release_strategy.value
         \in { TheatricalToStreaming, StreamingFirst }
    /\ ~fetchLog[2].ok
    /\ df[2].release_strategy.value \in { TheatricalOnly, LimitedTheatrical }

=============================================================================
